---- MODULE Spec2Model ----
(***************************************************************************)
(* hyperpm (src/src/main.rs): the `new` and `install` commands.            *)
(*                                                                         *)
(* One process run is modelled.  `main` dispatches to create_new_project   *)
(* (synchronous) or to install_packages, which adds one spinner per        *)
(* package to a MultiProgress, spawns one tokio task per package running   *)
(* install_package, and joins all of them.  The registry, the `npm`        *)
(* subprocesses and the file system are the environment: what they answer  *)
(* is chosen nondeterministically at the step that asks them.  A task is   *)
(* polled on one of the runtime's worker threads and keeps it while it     *)
(* runs the blocking `npm install`.                                        *)
(*                                                                         *)
(* Formatted text is a tuple of its pieces, in the order format! puts      *)
(* them; colours (green, bold, ...) do not change the text.                *)
(***************************************************************************)
EXTENDS Integers, Sequences, FiniteSets, TLC

\* ------------------------------------------------------------------ bounds
\* The longest list of package names given to `install`.
MaxTargets == 2
\* The most worker threads the runtime may have (one per core of the machine).
MaxWorkers == 2

\* ------------------------------------------------------------------ inputs
\* Package names given on the command line (the same name may be given twice).
PackageNames == {"foo", "bar"}
\* Project names given to `new`.
ProjectNames == {"app", "site"}
\* Version strings the registry may publish at dist-tags.latest.
Versions == {"2.1.0", "1.0.3"}
\* Texts an installer may leave on its standard error (it may leave none).
StderrTexts == {"", "npm ERR! 404"}

\* Sequences over S of length 0..n.
SeqsUpTo(S, n) == UNION {[1..k -> S] : k \in 0..n}

VARIABLES
    command,      \* cli.command: the parsed subcommand and its arguments
    workers,      \* the number of worker threads of the runtime #[tokio::main] builds
    main_pc,      \* where main (and the function it called) stands
    main_result,  \* the anyhow::Result main returns: "none" while running
    exit_code,    \* the process exit code: -1 while running
    stdout,       \* lines written with println!
    stderr,       \* lines written with eprintln!
    dirs,         \* directories that exist in the working directory
    create_dir,   \* what std::fs::create_dir answered: "none" before the call
    npm_init,     \* the `npm init -y` invocations made: their current_dir
    m,            \* the MultiProgress: the bars added to it, in display order
    pb,           \* the ProgressBars: message, finished flag, mutation log
    handles,      \* the JoinHandles pushed by install_packages
    task,         \* the spawned tasks running install_package
    registry_get, \* per task: the URLs it has sent a GET request to
    npm_install   \* per task: the `npm install` processes it started

vars == <<command, workers, main_pc, main_result, exit_code, stdout, stderr, dirs,
          create_dir, npm_init, m, pb, handles, task, registry_get, npm_install>>

new_vars == <<dirs, create_dir, npm_init>>
install_vars == <<m, pb, handles, task, registry_get, npm_install, stderr>>

\* ---------------------------------------------------------------- JSON values
\* serde_json::Value, as far as the registry's answers need it.
JsonNull == [type |-> "null"]
JsonString(s) == [type |-> "string", s |-> s]
JsonNumber(n) == [type |-> "number", n |-> n]
JsonObject(f) == [type |-> "object", fields |-> f]

\* Value's Index<&str>: a missing key, or indexing a non-object, gives Null.
JsonIndex(v, key) ==
    IF v.type = "object" /\ key \in DOMAIN v.fields THEN v.fields[key] ELSE JsonNull

\* Value::as_str: Some(s) for a string, None otherwise.
None == [some |-> FALSE]
Some(x) == [some |-> TRUE, value |-> x]
as_str(v) == IF v.type = "string" THEN Some(v.s) ELSE None
unwrap_or(o, d) == IF o.some THEN o.value ELSE d

\* Bodies the registry may answer with that parse as JSON.
Responses ==
    {JsonObject("error" :> JsonString("Not found"))}
    \cup {JsonObject("dist-tags" :> JsonObject("next" :> JsonString("9.9.9")))}
    \cup {JsonObject("dist-tags" :> JsonObject("latest" :> JsonNumber(2)))}
    \cup {JsonObject("dist-tags" :> JsonObject("latest" :> JsonString(v))) : v \in Versions}

\* A variant: the tag is looked for at the top of the answer.
ResolveVersion_top(resp) == unwrap_or(as_str(JsonIndex(resp, "latest")), "latest")

\* Line 111: resp["dist-tags"]["latest"].as_str().unwrap_or("latest").
ResolveVersion(resp) ==
    unwrap_or(as_str(JsonIndex(JsonIndex(resp, "dist-tags"), "latest")), "latest")

\* ------------------------------------------------------------ formatted text
\* Line 99.
FetchingMsg(name) == <<"Fetching package info for ", name>>
\* Line 112.
InstallingMsg(name, version) == <<"Installing ", name, " (v", version, ")">>
\* Line 121: "{} {} {}" of the name, the phrase and "(v{})" of the version.
SuccessMsg(name, version) ==
    <<name, " ", "installed successfully!", " ", "(v", version, ")">>
\* A variant: the failure message without the package's name.
FailedMsg_anonymous(name) == <<"Failed to install", " ", "">>

\* Line 124: "{} {}" of the phrase and the name.
FailedMsg(name) == <<"Failed to install", " ", name>>
\* Line 116: the argument "{}@{}" given to `npm install`.
InstallArg(name, version) == <<name, "@", version>>
\* Line 62.
CreatedMsg(project_name) == <<"Project", " ", project_name, " ", "created successfully!">>

\* ------------------------------------------------------------- ProgressBar
\* ProgressBar::new_spinner(): no message, not finished, nothing done to it yet.
new_spinner == [message |-> <<>>, finished |-> FALSE, log |-> <<>>]

\* ProgressBar::set_message: replaces the message (whatever the bar's state).
set_message(bar, msg) ==
    [bar EXCEPT !.message = msg,
                !.log = Append(@, [op |-> "set_message", msg |-> msg])]

\* ProgressBar::finish_with_message: replaces the message and marks the bar finished.
finish_with_message(bar, msg) ==
    [bar EXCEPT !.message = msg, !.finished = TRUE,
                !.log = Append(@, [op |-> "finish_with_message", msg |-> msg])]

\* ------------------------------------------------------------------- state
\* What the command line may parse to (lines 31-34, 40).
Commands ==
    [kind : {"New"}, project_name : ProjectNames]
    \cup [kind : {"Install"}, package_names : SeqsUpTo(PackageNames, MaxTargets)]

\* The file system matters to `new` only; an `install` run starts from an
\* empty working directory.
Init ==
    /\ command \in Commands
    /\ workers \in 1..MaxWorkers
    /\ main_pc = "main"
    /\ main_result = "none"
    /\ exit_code = -1
    /\ stdout = <<>>
    /\ stderr = <<>>
    /\ dirs \in (IF command.kind = "New" THEN SUBSET ProjectNames ELSE {{}})
    /\ create_dir = "none"
    /\ npm_init = <<>>
    /\ m = <<>>
    /\ pb = <<>>
    /\ handles = <<>>
    /\ task = <<>>
    /\ registry_get = <<>>
    /\ npm_install = <<>>

\* ------------------------------------------------------ create_new_project
\* std::fs::create_dir: the name must be free and the parent must let us.
fs_create_dir(name, existing, permitted) ==
    IF name \in existing THEN "AlreadyExists"
    ELSE IF ~permitted THEN "PermissionDenied"
    ELSE "Ok"

\* A variant: the answer of create_dir is ignored.
after_create_dir_ignored(answer) == [pc |-> "npm_init", result |-> "none"]

\* Line 54: `?` returns the error of create_dir; otherwise go on to line 57.
after_create_dir(answer) ==
    IF answer = "Ok" THEN [pc |-> "npm_init", result |-> "none"]
                     ELSE [pc |-> "returned", result |-> "Err"]

\* Lines 44, 51-54: main calls create_new_project, which prints the banner and
\* creates the directory; `?` returns the error to main.
NewCreateDir ==
    /\ main_pc = "main"
    /\ command.kind = "New"
    /\ stdout' = Append(stdout, <<"Creating new project...">>)
    /\ \E permitted \in BOOLEAN :
          LET answer == fs_create_dir(command.project_name, dirs, permitted) IN
          /\ create_dir' = answer
          /\ dirs' = IF answer = "Ok" THEN dirs \cup {command.project_name} ELSE dirs
          /\ main_pc' = after_create_dir(answer).pc
          /\ main_result' = after_create_dir(answer).result
    /\ UNCHANGED <<command, workers, exit_code, npm_init>>
    /\ UNCHANGED install_vars

\* A variant: the exit status of the initializer is inspected.
after_npm_init_checked(spawned, success) ==
    IF spawned /\ success THEN [pc |-> "println_created", result |-> "none"]
                           ELSE [pc |-> "returned", result |-> "Err"]

\* What create_new_project does with the outcome of Command::output():
\* `?` returns a spawn error; an Output is dropped, its status unread.
after_npm_init(spawned, success) ==
    IF spawned THEN [pc |-> "println_created", result |-> "none"]
               ELSE [pc |-> "returned", result |-> "Err"]

\* A variant: the directory is removed again when `npm init` cannot be started.
NewNpmInit_rollback ==
    /\ main_pc = "npm_init"
    /\ \E spawned \in BOOLEAN, success \in BOOLEAN :
          /\ npm_init' = IF spawned
                          THEN Append(npm_init, [current_dir |-> command.project_name,
                                                 args |-> <<"init", "-y">>,
                                                 success |-> success])
                          ELSE npm_init
          /\ dirs' = IF spawned THEN dirs ELSE dirs \ {command.project_name}
          /\ main_pc' = after_npm_init(spawned, success).pc
          /\ main_result' = after_npm_init(spawned, success).result
    /\ UNCHANGED <<command, workers, exit_code, stdout, create_dir>>
    /\ UNCHANGED install_vars

\* Lines 57-60: `npm init -y` in the new directory.  The process may fail to
\* start; if it starts it exits with some status.
NewNpmInit ==
    /\ main_pc = "npm_init"
    /\ \E spawned \in BOOLEAN, success \in BOOLEAN :
          /\ npm_init' = IF spawned
                          THEN Append(npm_init, [current_dir |-> command.project_name,
                                                 args |-> <<"init", "-y">>,
                                                 success |-> success])
                          ELSE npm_init
          /\ main_pc' = after_npm_init(spawned, success).pc
          /\ main_result' = after_npm_init(spawned, success).result
    /\ UNCHANGED <<command, workers, exit_code, stdout, dirs, create_dir>>
    /\ UNCHANGED install_vars

\* Lines 62-63.
NewCreated ==
    /\ main_pc = "println_created"
    /\ stdout' = Append(stdout, CreatedMsg(command.project_name))
    /\ main_result' = "Ok"
    /\ main_pc' = "returned"
    /\ UNCHANGED <<command, workers, exit_code, dirs, create_dir, npm_init>>
    /\ UNCHANGED install_vars

\* --------------------------------------------------------- install_packages
N == Len(command.package_names)

\* Lines 45, 68-71: main calls install_packages, which prints the banner and
\* makes the MultiProgress and the empty vector of JoinHandles.
InstallBegin ==
    /\ main_pc = "main"
    /\ command.kind = "Install"
    /\ stdout' = Append(stdout, <<"Installing packages...">>)
    /\ main_pc' = "for"
    /\ UNCHANGED <<command, workers, main_result, exit_code>>
    /\ UNCHANGED new_vars
    /\ UNCHANGED install_vars

\* A task just given to task::spawn: install_package has not run yet.
new_task(package_name) ==
    [pc |-> "start", package_name |-> package_name, resp |-> None, version |-> "",
     output |-> None, result |-> "running", error |-> "none"]

\* A variant: the bar becomes the first line of the display.
multi_progress_insert_top(mp, bar) == <<bar>> \o mp

\* MultiProgress::add: the bar becomes the last line of the display.
multi_progress_add(mp, bar) == Append(mp, bar)

\* Lines 73-82, the first half of an iteration: make the spinner of the next
\* package and add it to the MultiProgress.
InstallAdd ==
    /\ main_pc = "for"
    /\ Len(pb) = Len(handles)
    /\ Len(handles) < N
    /\ m' = multi_progress_add(m, Len(pb) + 1)
    /\ pb' = Append(pb, new_spinner)
    /\ UNCHANGED <<command, workers, main_pc, main_result, exit_code, stdout, stderr,
                   handles, task, registry_get, npm_install>>
    /\ UNCHANGED new_vars

\* The loop may spawn the next task: its spinner has been made.
spawn_ready(bars, hs) == Len(bars) = Len(hs) + 1

\* Lines 82-88, the second half: spawn the task that owns the spinner and
\* push its JoinHandle.
InstallSpawn ==
    /\ main_pc = "for"
    /\ spawn_ready(pb, handles)
    /\ LET i == Len(handles) + 1 IN
          /\ task' = Append(task, new_task(command.package_names[i]))
          /\ handles' = Append(handles, i)
          /\ registry_get' = Append(registry_get, <<>>)
          /\ npm_install' = Append(npm_install, <<>>)
    /\ UNCHANGED <<command, workers, main_pc, main_result, exit_code, stdout, stderr,
                   m, pb>>
    /\ UNCHANGED new_vars

\* A variant: fail-fast joining, ready as soon as one task has returned Err.
join_all_fail_fast(hs, tasks) ==
    \/ \A h \in 1..Len(hs) : tasks[hs[h]].pc = "done"
    \/ \E h \in 1..Len(hs) : tasks[hs[h]].result = "Err"

\* join_all(handles): ready once every JoinHandle's task has ended.
join_all_ready(hs, tasks) == \A h \in 1..Len(hs) : tasks[hs[h]].pc = "done"

\* A variant: the collected results are aggregated, the first Err returned.
install_packages_aggregated(tasks) ==
    IF \E i \in 1..Len(tasks) : tasks[i].result = "Err" THEN "Err" ELSE "Ok"

\* Line 94: the results join_all collected are dropped.
install_packages_result(tasks) == "Ok"

\* Lines 89-94: the loop is over, join_all completes, Ok(()) is returned.
InstallJoin ==
    /\ main_pc = "for"
    /\ Len(handles) = N
    /\ join_all_ready(handles, task)
    /\ main_result' = install_packages_result(task)
    /\ main_pc' = "returned"
    /\ UNCHANGED <<command, workers, exit_code, stdout>>
    /\ UNCHANGED new_vars
    /\ UNCHANGED install_vars

\* ---------------------------------------------------------- install_package
Tasks == 1..Len(task)

\* Lines 104: the URL of the package's metadata.
RegistryUrl(package_name) == <<"https://registry.npmjs.org/", package_name>>

\* A task is on a worker thread from the poll that resumes it after
\* json().await to its end: Command::output() (std::process) blocks the
\* thread, and nothing after it awaits.
on_worker(t) == t.pc \in {"npm", "output", "eprintln"}

\* A poll of a task needs a worker thread that no task is holding.
worker_free == Cardinality({i \in Tasks : on_worker(task[i])}) < workers

\* The task ends: its locals are dropped and its Result is stored for the
\* JoinHandle.
task_end(t, result, error) ==
    [t EXCEPT !.pc = "done", !.resp = None, !.version = "", !.output = None,
              !.result = result, !.error = error]

\* Lines 99-105: the first poll sets the "fetching" message and sends the GET
\* request; the task then waits for the answer off the worker thread.
Fetch(i) ==
    /\ task[i].pc = "start"
    /\ worker_free
    /\ pb' = [pb EXCEPT ![i] = set_message(@, FetchingMsg(task[i].package_name))]
    /\ registry_get' = [registry_get EXCEPT
                            ![i] = Append(@, RegistryUrl(task[i].package_name))]
    /\ task' = [task EXCEPT ![i].pc = "send"]
    /\ UNCHANGED <<command, workers, main_pc, main_result, exit_code, stdout, stderr,
                   m, handles, npm_install>>
    /\ UNCHANGED new_vars

\* A variant: a failed request is swallowed and the task goes on with the
\* version label "latest".
Send_fallback(i) ==
    /\ task[i].pc = "send"
    /\ worker_free
    /\ \E ok \in BOOLEAN :
          IF ok
          THEN /\ task' = [task EXCEPT ![i].pc = "json"]
               /\ pb' = pb
          ELSE /\ task' = [task EXCEPT ![i].pc = "npm", ![i].resp = Some(JsonNull),
                                       ![i].version = "latest", ![i].error = "send"]
               /\ pb' = [pb EXCEPT ![i] =
                            set_message(@, InstallingMsg(task[i].package_name, "latest"))]
    /\ UNCHANGED <<command, workers, main_pc, main_result, exit_code, stdout, stderr,
                   m, handles, registry_get, npm_install>>
    /\ UNCHANGED new_vars

\* A variant: a failed request is sent again.
Send_retry(i) ==
    /\ task[i].pc = "send"
    /\ worker_free
    /\ \E ok \in BOOLEAN :
          task' = [task EXCEPT ![i].pc = IF ok THEN "json" ELSE "start"]
    /\ UNCHANGED <<command, workers, main_pc, main_result, exit_code, stdout, stderr,
                   m, pb, handles, registry_get, npm_install>>
    /\ UNCHANGED new_vars

\* Lines 105-106: send().await? -- the request fails (`?` ends the task with
\* the error) or a response arrives.
Send(i) ==
    /\ task[i].pc = "send"
    /\ worker_free
    /\ \E ok \in BOOLEAN :
          task' = [task EXCEPT ![i] =
                      IF ok THEN [@ EXCEPT !.pc = "json"]
                            ELSE task_end(@, "Err", "send")]
    /\ UNCHANGED <<command, workers, main_pc, main_result, exit_code, stdout, stderr,
                   m, pb, handles, registry_get, npm_install>>
    /\ UNCHANGED new_vars

\* A variant: the "installing" message is never set.
Json_silent(i) ==
    /\ task[i].pc = "json"
    /\ worker_free
    /\ \/ task' = [task EXCEPT ![i] = task_end(@, "Err", "json")]
       \/ \E resp \in Responses :
             task' = [task EXCEPT ![i].pc = "npm", ![i].resp = Some(resp),
                                  ![i].version = ResolveVersion(resp)]
    /\ UNCHANGED <<command, workers, main_pc, main_result, exit_code, stdout, stderr,
                   m, pb, handles, registry_get, npm_install>>
    /\ UNCHANGED new_vars

\* Lines 107-112: json().await? -- the body does not parse (`?` ends the task)
\* or it is a Value; the version is read from it and the "installing"
\* message is set.
Json(i) ==
    /\ task[i].pc = "json"
    /\ worker_free
    /\ \/ /\ task' = [task EXCEPT ![i] = task_end(@, "Err", "json")]
          /\ pb' = pb
       \/ \E resp \in Responses :
             LET version == ResolveVersion(resp) IN
             /\ task' = [task EXCEPT ![i].pc = "npm", ![i].resp = Some(resp),
                                     ![i].version = version]
             /\ pb' = [pb EXCEPT ![i] =
                          set_message(@, InstallingMsg(task[i].package_name, version))]
    /\ UNCHANGED <<command, workers, main_pc, main_result, exit_code, stdout, stderr,
                   m, handles, registry_get, npm_install>>
    /\ UNCHANGED new_vars

\* Lines 115-117: Command::new("npm").args(["install", name@version]).output()
\* starts the process; if it cannot be started `?` ends the task.
Npm(i) ==
    /\ task[i].pc = "npm"
    /\ \E spawned \in BOOLEAN :
          IF spawned
          THEN /\ npm_install' = [npm_install EXCEPT ![i] =
                     Append(@, [args |-> <<"install",
                                  InstallArg(task[i].package_name, task[i].version)>>,
                                status |-> "running", stderr |-> ""])]
               /\ task' = [task EXCEPT ![i].pc = "output"]
          ELSE /\ npm_install' = npm_install
               /\ task' = [task EXCEPT ![i] = task_end(@, "Err", "spawn")]
    /\ UNCHANGED <<command, workers, main_pc, main_result, exit_code, stdout, stderr,
                   m, pb, handles, registry_get>>
    /\ UNCHANGED new_vars

\* A variant: the captured standard error is printed whatever the status.
Output_prints_always(i) ==
    /\ task[i].pc = "output"
    /\ \E success \in BOOLEAN, text \in StderrTexts :
          /\ npm_install' = [npm_install EXCEPT ![i][Len(npm_install[i])] =
                [@ EXCEPT !.status = IF success THEN "success" ELSE "failure",
                          !.stderr = text]]
          /\ IF success
             THEN /\ pb' = [pb EXCEPT ![i] = finish_with_message(@,
                               SuccessMsg(task[i].package_name, task[i].version))]
                  /\ stderr' = Append(stderr, text)
                  /\ task' = [task EXCEPT ![i] = task_end(@, "Ok", "none")]
             ELSE /\ pb' = [pb EXCEPT ![i] = finish_with_message(@,
                               FailedMsg(task[i].package_name))]
                  /\ stderr' = stderr
                  /\ task' = [task EXCEPT ![i].pc = "eprintln",
                                          ![i].output = Some([success |-> FALSE,
                                                              stderr |-> text])]
    /\ UNCHANGED <<command, workers, main_pc, main_result, exit_code, stdout,
                   m, handles, registry_get>>
    /\ UNCHANGED new_vars

\* Lines 117-128: the process exits and output() returns its status and its
\* standard error.  On success the bar is finished with the success message
\* and the task returns Ok; otherwise the bar is finished with the failure
\* message and the standard error is still to be printed.
Output(i) ==
    /\ task[i].pc = "output"
    /\ \E success \in BOOLEAN, text \in StderrTexts :
          /\ npm_install' = [npm_install EXCEPT ![i][Len(npm_install[i])] =
                [@ EXCEPT !.status = IF success THEN "success" ELSE "failure",
                          !.stderr = text]]
          /\ IF success
             THEN /\ pb' = [pb EXCEPT ![i] = finish_with_message(@,
                               SuccessMsg(task[i].package_name, task[i].version))]
                  /\ task' = [task EXCEPT ![i] = task_end(@, "Ok", "none")]
             ELSE /\ pb' = [pb EXCEPT ![i] = finish_with_message(@,
                               FailedMsg(task[i].package_name))]
                  /\ task' = [task EXCEPT ![i].pc = "eprintln",
                                          ![i].output = Some([success |-> FALSE,
                                                              stderr |-> text])]
    /\ UNCHANGED <<command, workers, main_pc, main_result, exit_code, stdout, stderr,
                   m, handles, registry_get>>
    /\ UNCHANGED new_vars

\* A variant: the captured text is also put on the (finished) bar.
Eprintln_on_bar(i) ==
    /\ task[i].pc = "eprintln"
    /\ stderr' = Append(stderr, task[i].output.value.stderr)
    /\ pb' = [pb EXCEPT ![i] = set_message(@, <<task[i].output.value.stderr>>)]
    /\ task' = [task EXCEPT ![i] = task_end(@, "Ok", "none")]
    /\ UNCHANGED <<command, workers, main_pc, main_result, exit_code, stdout,
                   m, handles, registry_get, npm_install>>
    /\ UNCHANGED new_vars

\* Lines 125-128: eprintln! of the captured standard error, then Ok(()).
Eprintln(i) ==
    /\ task[i].pc = "eprintln"
    /\ stderr' = Append(stderr, task[i].output.value.stderr)
    /\ task' = [task EXCEPT ![i] = task_end(@, "Ok", "none")]
    /\ UNCHANGED <<command, workers, main_pc, main_result, exit_code, stdout,
                   m, pb, handles, registry_get, npm_install>>
    /\ UNCHANGED new_vars

\* ---------------------------------------------------------------------- main
\* The exit code of a main that returns anyhow::Result<()>.
ExitCode(result) == IF result = "Ok" THEN 0 ELSE 1

\* Lines 38-47: main returns what the command returned; the process exits.
Exit ==
    /\ main_pc = "returned"
    /\ exit_code' = ExitCode(main_result)
    /\ main_pc' = "exited"
    /\ UNCHANGED <<command, workers, main_result, stdout>>
    /\ UNCHANGED new_vars
    /\ UNCHANGED install_vars

Next ==
    \/ NewCreateDir
    \/ NewNpmInit
    \/ NewCreated
    \/ InstallBegin
    \/ InstallAdd
    \/ InstallSpawn
    \/ InstallJoin
    \/ \E i \in Tasks : Fetch(i)
    \/ \E i \in Tasks : Send(i)
    \/ \E i \in Tasks : Json(i)
    \/ \E i \in Tasks : Npm(i)
    \/ \E i \in Tasks : Output(i)
    \/ \E i \in Tasks : Eprintln(i)
    \/ Exit

Spec == Init /\ [][Next]_vars

\* ---------------------------------------------------------------- properties
\* install_packages has returned to main.
InstallReturned == command.kind = "Install" /\ main_pc \in {"returned", "exited"}

\* The name given at list position i.
NameOf(i) == command.package_names[i]

\* Task i's metadata lookup failed: the request, or the parsing of the answer.
LookupFailed(i) == task[i].error \in {"send", "json"}

\* Task i started an installer process, and how that process ended.
Invoked(i) == npm_install[i] # <<>>
InstallerStatus(i) == IF Invoked(i) THEN npm_install[i][1].status ELSE "none"

\* The metadata answers that carry a string at dist-tags.latest.
WithLatestString ==
    {JsonObject("dist-tags" :> JsonObject("latest" :> JsonString(v))) : v \in Versions}

\* How many lines of the sequence q equal x.
Count(q, x) == Cardinality({k \in 1..Len(q) : q[k] = x})

\* ---------------------------------------------------------------------- C1
\* C1 (as claimed): when install_packages returns, exactly N progress handles
\* have been created and every one of them has been finished by its task.
C1_AllHandlesTerminalAtReturn ==
    InstallReturned => /\ Len(pb) = N
                       /\ \A i \in 1..Len(pb) : pb[i].finished

\* ---------------------------------------------------------------------- C2
\* C2 (as claimed): a target whose metadata lookup failed has had the installer
\* invoked with target@latest by the time its task ends.
C2_LookupFailureInstallsLatest ==
    \A i \in Tasks :
        (task[i].pc = "done" /\ LookupFailed(i)) =>
            /\ Invoked(i)
            /\ npm_install[i][1].args = <<"install", <<NameOf(i), "@", "latest">>>>

\* C2 (amended): a failed metadata lookup ends the target's task with an error
\* and the installer is never invoked for it; the label "latest" is used when
\* the lookup succeeds and the answer has no string at dist-tags.latest: the
\* installer is then invoked once, with target@latest.
C2_LatestOnlyWhenTagAbsent ==
    \A i \in Tasks :
        /\ LookupFailed(i) =>
              task[i].pc = "done" /\ task[i].result = "Err" /\ ~Invoked(i)
        /\ (task[i].pc \in {"output", "eprintln"}
              /\ task[i].resp.value \notin WithLatestString) =>
              /\ Len(npm_install[i]) = 1
              /\ npm_install[i][1].args = <<"install", <<NameOf(i), "@", "latest">>>>

\* One task's lookup has failed while another, whose answer had no latest tag,
\* is running its installer.
C2_Witness ==
    \E i, j \in Tasks :
        /\ LookupFailed(i) /\ task[i].pc = "done"
        /\ task[j].pc = "output" /\ task[j].resp.value \notin WithLatestString

\* ---------------------------------------------------------------------- C3
\* C3: once a target's installer has exited, its handle is finished; after a
\* success the message is the success message with the target's name and the
\* version the installer was given, after a non-zero exit it is the failure
\* message naming the target, and when such a task has ended the standard
\* error it captured is on the diagnostic stream (once per such task).
C3_InstallerExitReported ==
    /\ \A i \in Tasks :
          /\ InstallerStatus(i) = "success" =>
                /\ pb[i].finished
                /\ pb[i].message = <<NameOf(i), " ", "installed successfully!", " ",
                                     "(v", npm_install[i][1].args[2][3], ")">>
          /\ InstallerStatus(i) = "failure" =>
                /\ pb[i].finished
                /\ pb[i].message = <<"Failed to install", " ", NameOf(i)>>
    /\ \A text \in StderrTexts :
          Count(stderr, text) =
             Cardinality({i \in Tasks : /\ task[i].pc = "done"
                                        /\ InstallerStatus(i) = "failure"
                                        /\ npm_install[i][1].stderr = text})

\* One installer has exited non-zero, its task has printed the captured text
\* and ended, and another target's installer has succeeded.
C3_Witness ==
    \E i, j \in Tasks :
        /\ InstallerStatus(i) = "failure" /\ task[i].pc = "done"
        /\ npm_install[i][1].stderr = "npm ERR! 404"
        /\ InstallerStatus(j) = "success" /\ task[j].pc = "done"

\* ---------------------------------------------------------------------- C4
\* A step of task i.
TaskStep(i) == Fetch(i) \/ Send(i) \/ Json(i) \/ Npm(i) \/ Output(i) \/ Eprintln(i)

C5_InstallAlwaysOk ==
    /\ InstallReturned =>
          /\ main_result = "Ok"
          /\ Len(handles) = N
          /\ \A i \in 1..N : task[i].pc = "done"
    /\ (command.kind = "Install" /\ main_pc = "exited") => exit_code = 0

\* The process has exited after an `install` of two targets that both failed,
\* one before the installer ran and one by the installer's exit status.
C5_Witness ==
    /\ command.kind = "Install" /\ main_pc = "exited"
    /\ \E i, j \in Tasks : task[i].result = "Err" /\ InstallerStatus(j) = "failure"

\* ---------------------------------------------------------------------- C6
\* C6: when create_dir fails, create_new_project has returned an error
\* without going on to the initializer: no `npm init` was started, the
\* "created successfully" line is not printed, and the process exits non-zero.
C6_CreateDirFailureAborts ==
    create_dir \in {"AlreadyExists", "PermissionDenied"} =>
        /\ main_pc \in {"returned", "exited"}
        /\ main_result = "Err"
        /\ npm_init = <<>>
        /\ \A k \in 1..Len(stdout) : stdout[k] = <<"Creating new project...">>
        /\ main_pc = "exited" => exit_code = 1

\* The process has exited after `new` with a name that exists already.
C6_Witness == create_dir = "AlreadyExists" /\ main_pc = "exited"

\* ---------------------------------------------------------------------- C7
\* The run `install foo bar` has ended: foo was installed at 2.1.0 and the
\* metadata request for bar failed.
C7_Scenario ==
    /\ command.kind = "Install" /\ command.package_names = <<"foo", "bar">>
    /\ main_pc = "exited"
    /\ Invoked(1)
    /\ npm_install[1][1].args = <<"install", <<"foo", "@", "2.1.0">>>>
    /\ npm_install[1][1].status = "success"
    /\ task[2].error = "send"

\* C7 (as claimed): at the end of that run foo's handle is finished with the
\* success message showing v2.1.0, bar's handle is finished with "Failed to
\* install bar", and the exit code is 0.
C7_FooInstalledBarFlagged ==
    C7_Scenario =>
        /\ pb[1].finished
        /\ pb[1].message = <<"foo", " ", "installed successfully!", " ",
                             "(v", "2.1.0", ")">>
        /\ pb[2].finished
        /\ pb[2].message = <<"Failed to install", " ", "bar">>
        /\ exit_code = 0

\* ---------------------------------------------------------------------- C8
\* create_new_project has returned after creating the directory.
NewReturnedAfterCreate ==
    command.kind = "New" /\ create_dir = "Ok" /\ main_pc \in {"returned", "exited"}

\* The "created successfully" line of the project.
CreatedLine == <<"Project", " ", command.project_name, " ", "created successfully!">>

\* C8 (as claimed): once the directory is created, create_new_project returns
\* Ok and prints "created successfully", whether the initializer succeeded,
\* exited non-zero or could not be spawned.
C8_InitializerFailureIgnored ==
    NewReturnedAfterCreate => main_result = "Ok" /\ Count(stdout, CreatedLine) = 1

\* C8 (amended): once the directory is created, the exit status of the
\* initializer is not looked at: if the process could be started the
\* operation prints "created successfully" and returns Ok (exit code 0)
\* whatever the status; if it could not be started the operation returns the
\* error without printing the line (exit code 1).
C8_OnlySpawnFailureReturned ==
    NewReturnedAfterCreate =>
        IF npm_init # <<>>
        THEN /\ main_result = "Ok"
             /\ Count(stdout, CreatedLine) = 1
             /\ main_pc = "exited" => exit_code = 0
        ELSE /\ main_result = "Err"
             /\ Count(stdout, CreatedLine) = 0
             /\ main_pc = "exited" => exit_code = 1

\* `new` has exited with Ok although the initializer exited non-zero.
C8_Witness ==
    /\ NewReturnedAfterCreate /\ main_pc = "exited"
    /\ npm_init # <<>> /\ ~npm_init[1].success
    /\ main_result = "Ok"

\* ---------------------------------------------------------------------- C9
\* What a mutation of a handle shows, read from the text it sets.
Kind(e) ==
    IF e.op = "set_message"
    THEN CASE e.msg[1] = "Fetching package info for " -> "fetching"
           [] e.msg[1] = "Installing " -> "installing"
           [] OTHER -> "other"
    ELSE CASE e.msg[1] = "Failed to install" -> "failed"
           [] Len(e.msg) = 7 /\ e.msg[3] = "installed successfully!" -> "finished"
           [] OTHER -> "other"

\* The mutations of handle i, in order.
Kinds(i) == [k \in 1..Len(pb[i].log) |-> Kind(pb[i].log[k])]

\* C9 (as claimed), read on the targets whose installer ran and exited: the
\* handle was mutated exactly (fetching, installing, finished) if the target
\* was installed, and exactly (fetching, failed) if it failed.
C9_ThreeOrTwoMutations ==
    \A i \in Tasks : (task[i].pc = "done" /\ task[i].result = "Ok") =>
        Kinds(i) = IF InstallerStatus(i) = "success"
                   THEN <<"fetching", "installing", "finished">>
                   ELSE <<"fetching", "failed">>

\* C9 (amended): a handle's mutations are always a prefix of (fetching,
\* installing, finished) or of (fetching, installing, failed).  When its task
\* has ended they are (fetching, installing, finished) if the installer
\* succeeded, (fetching, installing, failed) if it exited non-zero,
\* (fetching, installing) if it could not be started, and (fetching) if the
\* metadata lookup failed.
C9_MutationSequences ==
    \A i \in Tasks :
        /\ Kinds(i) \in {<<>>, <<"fetching">>, <<"fetching", "installing">>,
                          <<"fetching", "installing", "finished">>,
                          <<"fetching", "installing", "failed">>}
        /\ task[i].pc = "done" =>
             Kinds(i) = CASE InstallerStatus(i) = "success" ->
                               <<"fetching", "installing", "finished">>
                          [] InstallerStatus(i) = "failure" ->
                               <<"fetching", "installing", "failed">>
                          [] task[i].error = "spawn" -> <<"fetching", "installing">>
                          [] OTHER -> <<"fetching">>

\* Two tasks have ended, one installed and one with a non-zero exit.
C9_Witness ==
    \E i, j \in Tasks :
        /\ task[i].pc = "done" /\ InstallerStatus(i) = "success"
        /\ task[j].pc = "done" /\ InstallerStatus(j) = "failure"

\* --------------------------------------------------------------------- C10
\* C10: a handle is finished at most once, and nothing is done to it after
\* that: finish_with_message occurs at most once in its log of mutations, only
\* as the last entry, and the handle is finished exactly when it occurs.
C10_TerminalOnceAndLast ==
    \A i \in 1..Len(pb) :
        LET log == pb[i].log
            finishes == {k \in 1..Len(log) : log[k].op = "finish_with_message"}
        IN /\ Cardinality(finishes) <= 1
           /\ finishes \subseteq {Len(log)}
           /\ pb[i].finished <=> finishes # {}

\* The process has exited and a handle was finished by a task that went on
\* to print the installer's standard error before it ended.
C10_Witness ==
    /\ main_pc = "exited"
    /\ \E i \in Tasks : pb[i].finished /\ InstallerStatus(i) = "failure"

\* --------------------------------------------------------------------- C11
\* The string an answer carries at dist-tags.latest, "latest" if it has none.
TagOf(r) ==
    IF r \in WithLatestString THEN r.fields["dist-tags"].fields["latest"].s
                              ELSE "latest"

\* C11: while a task holds the answer to its lookup and its installer is
\* started, the installer's argument is target@version with the version of
\* that task's own answer (the string at dist-tags.latest, else "latest");
\* the "installing" message shows the version the installer was given, and so
\* does the success message.
C11_ArgumentIsOwnVersion ==
    \A i \in Tasks : Invoked(i) =>
        LET given == npm_install[i][1].args[2][3] IN
        /\ Len(npm_install[i][1].args) = 2
        /\ npm_install[i][1].args[1] = "install"
        /\ npm_install[i][1].args[2] = <<NameOf(i), "@", given>>
        /\ task[i].pc \in {"output", "eprintln"} =>
              given = TagOf(task[i].resp.value)
        /\ pb[i].log[2] = [op |-> "set_message",
                           msg |-> <<"Installing ", NameOf(i), " (v", given, ")">>]
        /\ InstallerStatus(i) = "success" =>
              pb[i].message = <<NameOf(i), " ", "installed successfully!", " ",
                                "(v", given, ")">>

\* Two installers run at once, for targets whose answers gave different
\* versions.
C11_Witness ==
    \E i, j \in Tasks :
        /\ task[i].pc = "output" /\ TagOf(task[i].resp.value) = "2.1.0"
        /\ task[j].pc = "output" /\ TagOf(task[j].resp.value) \in {"1.0.3", "latest"}
        /\ npm_install[i][1].args[2][3] # npm_install[j][1].args[2][3]

\* --------------------------------------------------------------------- C12
\* C12: every list position sends at most one metadata request, to its own
\* package's URL, and starts at most one installer; an installer has been
\* started only by a task that is past its lookup (the request was sent and
\* its answer parsed); a task that has ended with an error has made no
\* second attempt.
C12_SingleAttempt ==
    \A i \in Tasks :
        /\ Len(registry_get[i]) <= 1
        /\ Len(npm_install[i]) <= 1
        /\ task[i].pc # "start" =>
              registry_get[i] = <<<<"https://registry.npmjs.org/", NameOf(i)>>>>
        /\ Invoked(i) =>
              /\ task[i].pc \in {"output", "eprintln", "done"}
              /\ Len(registry_get[i]) = 1
              /\ ~LookupFailed(i)
        /\ task[i].result = "Err" =>
              task[i].pc = "done" /\ Len(registry_get[i]) = 1 /\ ~Invoked(i)

\* The same name was given twice; the process has exited after one
\* position's request failed and the other position's installer ran.
C12_Witness ==
    /\ main_pc = "exited" /\ command.kind = "Install"
    /\ N = 2 /\ command.package_names[1] = command.package_names[2]
    /\ \E i, j \in Tasks : task[i].error = "send" /\ Invoked(j)

\* --------------------------------------------------------------------- C13
\* C13: in every state, whatever the tasks have done so far, line k of the
\* display is the handle of list position k; a task exists only if its
\* handle has been added, it is the task of the package at its position, and
\* the messages on handle k name that package.
C13_DisplayOrderIsListOrder ==
    /\ Len(m) = Len(pb)
    /\ \A k \in 1..Len(m) : m[k] = k
    /\ Len(task) <= Len(pb) /\ Len(pb) <= Len(task) + 1
    /\ \A k \in Tasks :
          /\ task[k].package_name = command.package_names[k]
          /\ \A e \in 1..Len(pb[k].log) :
                command.package_names[k] \in
                   {pb[k].log[e].msg[x] : x \in 1..Len(pb[k].log[e].msg)}

\* The second handle is on the display, its task has already ended, and the
\* first task has not begun.
C13_Witness ==
    /\ Len(m) = 2 /\ Len(task) = 2
    /\ command.package_names[1] # command.package_names[2]
    /\ task[2].pc = "done" /\ pb[2].finished
    /\ task[1].pc = "start"

\* --------------------------------------------------------------------- C14
\* C14 (as claimed): while one target's installer process is running, every
\* other target's task that has not ended can take its next step, whatever
\* the number of worker threads.
C14_InstallerDoesNotBlockOthers ==
    \A a, b \in Tasks :
        (a # b /\ task[a].pc = "output" /\ task[b].pc # "done") =>
            ENABLED TaskStep(b)

\* --------------------------------------------------------------------- C15
\* create_new_project created the directory and then could not start the
\* initializer.
SpawnFailedAfterCreate == NewReturnedAfterCreate /\ npm_init = <<>>

\* C15: in that case the operation has returned an error (exit code 1), the
\* "created successfully" line is not printed, and the directory is still
\* there: create_dir of the same name in the directory tree left behind
\* answers AlreadyExists, which create_new_project returns as an error.
C15_NoRollback ==
    SpawnFailedAfterCreate =>
        /\ main_result = "Err"
        /\ main_pc = "exited" => exit_code = 1
        /\ \A k \in 1..Len(stdout) : stdout[k] # CreatedLine
        /\ command.project_name \in dirs
        /\ \A permitted \in BOOLEAN :
              LET again == fs_create_dir(command.project_name, dirs, permitted) IN
              /\ again = "AlreadyExists"
              /\ after_create_dir(again) = [pc |-> "returned", result |-> "Err"]

\* `new` has exited after such a run.
C15_Witness == SpawnFailedAfterCreate /\ main_pc = "exited"

\* --------------------------------------------------------------------- C16
\* The tasks that have ended after their installer exited non-zero.
EndedAfterFailure ==
    {i \in Tasks : task[i].pc = "done" /\ InstallerStatus(i) = "failure"}

\* C16: the diagnostic stream has one line for each task that has ended
\* after its installer exited non-zero, and no other line: nothing from a
\* target that was installed or whose task ended before the installer ran,
\* and nothing twice.  A task that is about to print has its handle
\* finished with the failure message already, so there are never more lines
\* than handles finished as failed.
C16_StderrOnlyAfterFailure ==
    /\ Len(stderr) = Cardinality(EndedAfterFailure)
    /\ \A i \in Tasks : task[i].pc = "eprintln" =>
          /\ InstallerStatus(i) = "failure"
          /\ pb[i].finished
          /\ pb[i].message = <<"Failed to install", " ", NameOf(i)>>
          /\ task[i].output.value.stderr = npm_install[i][1].stderr
    /\ Len(stderr) <=
          Cardinality({i \in Tasks : pb[i].finished
                                     /\ pb[i].message[1] = "Failed to install"})
    /\ InstallReturned =>
          \A i \in Tasks : i \notin EndedAfterFailure =>
              \/ InstallerStatus(i) = "success"
              \/ ~Invoked(i)

\* install_packages has returned; one target was installed, the other's
\* installer exited non-zero, and the diagnostic stream has exactly the one
\* line of the failed installer.
C16_Witness ==
    /\ InstallReturned /\ N = 2
    /\ Len(stderr) = 1 /\ stderr[1] = "npm ERR! 404"
    /\ \E i, j \in Tasks :
          /\ InstallerStatus(i) = "failure"
          /\ InstallerStatus(j) = "success"
====
